---- MODULE Spec2Model ----
(***************************************************************************)
(* Telco Customer Churn interactive EDA (src/app.py).                      *)
(*                                                                         *)
(* The script is a Streamlit page: every interaction (a file upload, a     *)
(* change of a filter control or of a selectbox) re-executes the script    *)
(* from its first line with the widgets' current values.  One action of    *)
(* this module is one interaction followed by the complete re-execution.   *)
(*                                                                         *)
(* A cell of a table is a tagged value: a number, a text, or pandas'       *)
(* missing marker NaN.  A row is a function from column names to cells, a  *)
(* table is a sequence of rows.  The tenure_bin labels are written with an *)
(* ASCII hyphen where the source has an en dash.                           *)
(***************************************************************************)
EXTENDS Integers, Sequences, FiniteSets, TLC

\* Bounds of the model: rows per uploaded table, columns per uploaded table,
\* and the largest tenure of the binning specification.
MaxRows == 2
MaxCols == 3
MaxTenure == 72

VARIABLES
    uploaded,     \* st.file_uploader holds a file
    status,       \* "stopped" (st.stop), "ok" (script ran to its end), or the exception raised
    columns,      \* df.columns without the derived tenure_bin
    df,           \* the coerced table, with tenure_bin when tenure is present
    opt,          \* multiselect values, one per categorical filter control shown
    rng,          \* slider values, one per numeric filter control shown
    fdf,          \* the filtered table
    kpi,          \* the four KPI cells
    cat_choice,   \* selectbox "Churn rate by category"
    cross_x,      \* selectbox "Axis X (category)"
    cross_y,      \* selectbox "Axis Y (category)"
    grp,          \* churn rate by category: group key -> [n, yes]
    tmp,          \* crossed view: <<key x, key y>> -> [n, yes]
    num_df,       \* the numeric frame handed to corr()
    shown         \* names of the controls, KPI metrics and charts rendered

vars == <<uploaded, status, columns, df, opt, rng, fdf, kpi, cat_choice,
          cross_x, cross_y, grp, tmp, num_df, shown>>

----------------------------------------------------------------------------
\* Cells

Num(n) == [t |-> "num", v |-> n]
Str(s) == [t |-> "str", v |-> s]
NaN == [t |-> "na"]

isna(c) == c.t = "na"

\* Column names.  ColumnOrder is the order of the columns in the uploaded file.
ColumnOrder ==
    << "customerID", "gender", "SeniorCitizen", "Partner", "Dependents", "tenure",
       "InternetService", "PaperlessBilling", "Contract", "PaymentMethod",
       "MonthlyCharges", "TotalCharges", "Churn" >>

AllColumns == { ColumnOrder[i] : i \in 1..Len(ColumnOrder) }

\* The calls of multiselect_if, in the order of apply_multiselect's calls.
CatFilters ==
    << "gender", "Contract", "PaymentMethod", "InternetService", "Partner",
       "Dependents", "SeniorCitizen" >>

\* The calls of range_slider_if_numeric, in the order the ranges are applied.
NumFilters == << "tenure", "MonthlyCharges", "TotalCharges" >>

Range(s) == { s[i] : i \in 1..Len(s) }

\* step= of each range slider
SliderStep(col) == IF col = "TotalCharges" THEN 10 ELSE 1

----------------------------------------------------------------------------
\* Text conversions

\* str.lower on the texts that occur in the tables
LowerTable ==
    [ s \in { "Yes", "No", "yes", "YES", "nan", "Male", "Female", "DSL", "Fiber optic",
              "Month-to-month", "One year", "Electronic check", "Mailed check",
              "0001", "0002", "0003", "30", "50", " ", "abc" } |->
        CASE s = "Yes" -> "yes"
          [] s = "YES" -> "yes"
          [] s = "No" -> "no"
          [] s = "Male" -> "male"
          [] s = "Female" -> "female"
          [] s = "DSL" -> "dsl"
          [] s = "Fiber optic" -> "fiber optic"
          [] s = "Month-to-month" -> "month-to-month"
          [] s = "One year" -> "one year"
          [] s = "Electronic check" -> "electronic check"
          [] s = "Mailed check" -> "mailed check"
          [] OTHER -> s ]

lower(s) == LowerTable[s]

\* The numeric texts pd.to_numeric parses; every other text is unparsable.
NumericText == ("30" :> 30) @@ ("50" :> 50)

\* pd.to_numeric(_, errors='coerce') on one cell
to_numeric(c) ==
    CASE c.t = "num" -> c
      [] c.t = "str" -> IF c.v \in DOMAIN NumericText THEN Num(NumericText[c.v]) ELSE NaN
      [] OTHER -> NaN

\* .replace(" ", np.nan) on one cell
replace_blank(c) == IF c.t = "str" /\ c.v = " " THEN NaN ELSE c

\* str() of a number of an int64 column, and of a float64 column
IntText(n) == CASE n = 0 -> "0" [] n = 1 -> "1"
FloatText(n) == CASE n = 0 -> "0.0" [] n = 1 -> "1.0"

\* A numeric column that holds a NaN is float64.
IsFloat(d, col) == \E i \in 1..Len(d) : isna(d[i][col])

\* .astype(str) on one cell of column col of table d
astype_str(d, col, c) ==
    CASE c.t = "str" -> c.v
      [] c.t = "na" -> "nan"
      [] OTHER -> IF IsFloat(d, col) THEN FloatText(c.v) ELSE IntText(c.v)

----------------------------------------------------------------------------
\* The rows an uploaded file is made of, as pd.read_csv returns them.  A file is
\* at most MaxRows of these rows, in this order, restricted to the columns it has.

RowPool ==
    << [ customerID |-> Str("0001"), gender |-> Str("Male"), SeniorCitizen |-> Num(0),
         Partner |-> Str("Yes"), Dependents |-> Str("No"), tenure |-> Num(0),
         InternetService |-> Str("DSL"), PaperlessBilling |-> Str("Yes"),
         Contract |-> Str("Month-to-month"), PaymentMethod |-> Str("Electronic check"),
         MonthlyCharges |-> Num(30), TotalCharges |-> Str(" "), Churn |-> Str("No") ],
       [ customerID |-> Str("0002"), gender |-> Str("Female"), SeniorCitizen |-> Num(1),
         Partner |-> Str("No"), Dependents |-> Str("No"), tenure |-> Num(1),
         InternetService |-> Str("Fiber optic"), PaperlessBilling |-> Str("No"),
         Contract |-> Str("One year"), PaymentMethod |-> Str("Mailed check"),
         MonthlyCharges |-> Num(31), TotalCharges |-> Str("50"), Churn |-> Str("Yes") ],
       [ customerID |-> Str("0003"), gender |-> NaN, SeniorCitizen |-> NaN,
         Partner |-> Str("YES"), Dependents |-> NaN, tenure |-> Str("abc"),
         InternetService |-> Str("DSL"), PaperlessBilling |-> NaN,
         Contract |-> Str("One year"), PaymentMethod |-> NaN,
         MonthlyCharges |-> NaN, TotalCharges |-> Str("30"), Churn |-> NaN ] >>

\* The file with columns cs whose rows are the pool rows idx[1], idx[2], ...
RawTable(cs, idx) == [ i \in 1..Len(idx) |-> [ c \in cs |-> RowPool[idx[i]][c] ] ]

RowChoices ==
    UNION { { idx \in [ 1..n -> 1..Len(RowPool) ] :
                \A i, j \in 1..n : i < j => idx[i] < idx[j] } : n \in 0..MaxRows }

----------------------------------------------------------------------------
\* coerce_telco_types and the tenure_bin column

coerce_telco_types(cs, raw) ==
    [ i \in 1..Len(raw) |->
        [ c \in cs |->
            CASE c = "TotalCharges" -> to_numeric(replace_blank(raw[i][c]))
              [] c = "Churn" -> Str(astype_str(raw, c, raw[i][c]))
              [] c = "tenure" -> to_numeric(raw[i][c])
              [] c = "MonthlyCharges" -> to_numeric(raw[i][c])
              [] OTHER -> raw[i][c] ] ]

\* tenure_bin with <= at every threshold (upper edges inclusive)
tenure_bin_le(val) ==
    IF isna(val) THEN NaN
    ELSE IF val.v <= 6 THEN Str("0-6")
    ELSE IF val.v <= 12 THEN Str("6-12")
    ELSE IF val.v <= 24 THEN Str("12-24")
    ELSE IF val.v <= 36 THEN Str("24-36")
    ELSE IF val.v <= 48 THEN Str("36-48")
    ELSE IF val.v <= 60 THEN Str("48-60")
    ELSE Str("60+")

tenure_bin(val) ==
    IF isna(val) THEN NaN
    ELSE IF val.v < 6 THEN Str("0-6")
    ELSE IF val.v < 12 THEN Str("6-12")
    ELSE IF val.v < 24 THEN Str("12-24")
    ELSE IF val.v < 36 THEN Str("24-36")
    ELSE IF val.v < 48 THEN Str("36-48")
    ELSE IF val.v < 60 THEN Str("48-60")
    ELSE Str("60+")

\* pd.Categorical(_, categories=[...]): a value outside the categories becomes NaN
Categorical(c) ==
    IF ~isna(c) /\ c.v \in { "0-6", "6-12", "12-24", "24-36", "36-48", "48-60", "60+" }
    THEN c ELSE NaN

\* lines 65-68: the table with its tenure_bin column
add_tenure_bin(cs, d) ==
    IF "tenure" \in cs
    THEN [ i \in 1..Len(d) |->
             [ c \in cs \cup { "tenure_bin" } |->
                 IF c = "tenure_bin" THEN Categorical(tenure_bin(d[i]["tenure"]))
                 ELSE d[i][c] ] ]
    ELSE d

\* fdf.columns / df.columns of a table loaded with columns cs
frame_columns(cs) == IF "tenure" \in cs THEN cs \cup { "tenure_bin" } ELSE cs

\* The dtype of a column of the coerced table: the three coerced numeric columns
\* are numeric, Churn is text, tenure_bin is categorical; any other column is
\* as pd.read_csv typed it: object in a file without rows or when it holds a
\* text, numeric otherwise.
dtype(d, col) ==
    CASE col \in { "tenure", "MonthlyCharges", "TotalCharges" } -> "number"
      [] col = "Churn" -> "object"
      [] col = "tenure_bin" -> "category"
      [] OTHER -> IF Len(d) = 0 \/ (\E i \in 1..Len(d) : d[i][col].t = "str")
                  THEN "object" ELSE "number"

----------------------------------------------------------------------------
\* Filter registry: multiselect_if and range_slider_if_numeric

\* multiselect_if's vals (the options, all selected by default), as a set
multiselect_options(d, col) ==
    { astype_str(d, col, d[i][col]) : i \in { j \in 1..Len(d) : ~isna(d[j][col]) } }

\* multiselect_if returns None for an absent column: opt has an entry exactly
\* for the columns a control was made for.
multiselect_shown(cs) == { c \in Range(CatFilters) : c \in cs }

\* range_slider_if_numeric's test: the column is present and numeric
slider_shown(cs, d) == { c \in Range(NumFilters) : c \in cs /\ dtype(d, c) = "number" }

NonMissing(d, col) == { d[i][col].v : i \in { j \in 1..Len(d) : ~isna(d[j][col]) } }

\* np.nanmin / np.nanmax of a column with at least one row: NaN when every value is NaN
nanmin(d, col) ==
    IF NonMissing(d, col) = {} THEN NaN
    ELSE Num(CHOOSE m \in NonMissing(d, col) : \A x \in NonMissing(d, col) : m <= x)

nanmax(d, col) ==
    IF NonMissing(d, col) = {} THEN NaN
    ELSE Num(CHOOSE m \in NonMissing(d, col) : \A x \in NonMissing(d, col) : m >= x)

\* np.nanmin of a column without rows raises ValueError (zero-size array to
\* reduction operation): the first slider of a table without rows ends the run.
registry_raises(cs, d) == Len(d) = 0 /\ slider_shown(cs, d) # {}

\* The values a slider created with (cmin, cmax, step) can take
slider_points(d, col) ==
    { Num(x) : x \in { y \in nanmin(d, col).v .. nanmax(d, col).v :
                         y = nanmax(d, col).v
                         \/ (y - nanmin(d, col).v) % SliderStep(col) = 0 } }

default_opt(cs, d) == [ c \in multiselect_shown(cs) |-> multiselect_options(d, c) ]

default_rng(cs, d) == [ c \in slider_shown(cs, d) |-> << nanmin(d, c), nanmax(d, c) >> ]

----------------------------------------------------------------------------
\* Mask composition (lines 90-111)

\* isin with the mask inverted
isin_negated(d, col, c, opts) == astype_str(d, col, c) \notin opts

\* fdf[col].astype(str).isin(opts) on one cell
isin(d, col, c, opts) == astype_str(d, col, c) \in opts

\* the range test with the upper end excluded
between_open(c, r) == c.t = "num" /\ c.v >= r[1].v /\ c.v < r[2].v

\* (fdf[col] >= r[0]) & (fdf[col] <= r[1]) on one cell; a comparison with NaN is False
between(c, r) == c.t = "num" /\ c.v >= r[1].v /\ c.v <= r[2].v

apply_multiselect(cs, d, f, col, o) ==
    IF col \in DOMAIN o /\ col \in frame_columns(cs)
    THEN SelectSeq(f, LAMBDA row : isin(d, col, row[col], o[col]))
    ELSE f

\* if rng and col in fdf.columns: a slider's value is a non-empty tuple, which is true
apply_range(cs, f, col, r) ==
    IF col \in DOMAIN r /\ col \in frame_columns(cs)
    THEN SelectSeq(f, LAMBDA row : between(row[col], r[col]))
    ELSE f

RECURSIVE apply_multiselects(_, _, _, _, _)
apply_multiselects(cs, d, f, o, k) ==
    IF k > Len(CatFilters) THEN f
    ELSE apply_multiselects(cs, d, apply_multiselect(cs, d, f, CatFilters[k], o), o, k + 1)

RECURSIVE apply_ranges(_, _, _, _)
apply_ranges(cs, f, r, k) ==
    IF k > Len(NumFilters) THEN f
    ELSE apply_ranges(cs, apply_range(cs, f, NumFilters[k], r), r, k + 1)

\* the filters applied to the previous filtered table instead of df.copy()
filtered_incremental(cs, d, prev, o, r) ==
    apply_ranges(cs, apply_multiselects(cs, d, prev, o, 1), r, 1)

\* fdf = df.copy(), then the seven apply_multiselect calls and the three ranges.
\* prev is the filtered table of the previous run, which the script does not read.
filtered(cs, d, prev, o, r) ==
    apply_ranges(cs, apply_multiselects(cs, d, d, o, 1), r, 1)

----------------------------------------------------------------------------
\* KPIs (lines 113-141)

\* A KPI cell: st.metric of a quotient num/den (den = 0 is NaN), or st.write("N/A")
Metric(n, m) == [ kind |-> "metric", num |-> n, den |-> m ]
NotAvailable == [ kind |-> "N/A", num |-> 0, den |-> 0 ]

\* fdf["Churn"].astype(str).str.lower().eq("yes") on one row
churn_num(row) == IF lower(row["Churn"].v) = "yes" THEN 1 ELSE 0

RECURSIVE Sum(_)
Sum(s) == IF Len(s) = 0 THEN 0 ELSE Head(s) + Sum(Tail(s))

\* the number of rows whose lower-cased Churn is "yes"
churn_sum(f) == Sum([ i \in 1..Len(f) |-> churn_num(f[i]) ])

\* the rate without the "if len(fdf) else 0.0" guard: 0/0 on an empty table
churn_rate_unguarded(f) == Metric(100 * churn_sum(f), Len(f))

\* np.mean(...) * 100 if len(fdf) else 0.0
churn_rate(f) ==
    IF Len(f) # 0 THEN Metric(100 * churn_sum(f), Len(f)) ELSE Metric(0, 1)

\* Series.mean(): the NaN cells are skipped
series_mean(f, col) ==
    Metric(Sum([ i \in 1..Len(f) |-> IF isna(f[i][col]) THEN 0 ELSE f[i][col].v ]),
           Sum([ i \in 1..Len(f) |-> IF isna(f[i][col]) THEN 0 ELSE 1 ]))

kpis(cs, f) ==
    [ churn |-> IF "Churn" \in frame_columns(cs) THEN churn_rate(f) ELSE NotAvailable,
      monthly |-> IF "MonthlyCharges" \in frame_columns(cs) /\ Len(f) # 0
                  THEN series_mean(f, "MonthlyCharges") ELSE NotAvailable,
      tenure |-> IF "tenure" \in frame_columns(cs) /\ Len(f) # 0
                 THEN series_mean(f, "tenure") ELSE NotAvailable,
      customers |-> Len(f) ]

NoKpis ==
    [ churn |-> NotAvailable, monthly |-> NotAvailable, tenure |-> NotAvailable,
      customers |-> 0 ]

----------------------------------------------------------------------------
\* Drivers tab (lines 163-201)

Placeholder == "(no categorical columns)"

\* cat_cols, in column order
cat_cols(cs, d) ==
    SelectSeq(ColumnOrder,
              LAMBDA c : c \in cs /\ dtype(d, c) = "object" /\ c \notin { "customerID" })

\* options of the selectbox "Churn rate by category"
cat_options(cs, d) == IF cat_cols(cs, d) # << >> THEN cat_cols(cs, d) ELSE << Placeholder >>

\* if len(cat_cols) >= 2 and "Churn" in fdf.columns
cross_shown(cs, d) == Len(cat_cols(cs, d)) >= 2 /\ "Churn" \in frame_columns(cs)

\* the second axis offered every categorical column
cross_y_options_all(cs, d, x) == cat_cols(cs, d)

\* options of the selectbox "Axis Y (category)"
cross_y_options(cs, d, x) == SelectSeq(cat_cols(cs, d), LAMBDA c : c # x)

\* groupby with its default dropna=True: the NaN key is left out
group_keys_dropna(f, col) == { f[i][col] : i \in { j \in 1..Len(f) : ~isna(f[j][col]) } }

\* groupby(col, dropna=False): the distinct keys, NaN among them
group_keys(f, col) == { f[i][col] : i \in 1..Len(f) }

\* groupby(col, dropna=False)["churn_num"].mean(): per key the group's size and
\* its sum of churn_num, whose quotient is the mean
groupby_mean(f, col) ==
    [ k \in group_keys(f, col) |->
        [ n |-> Cardinality({ i \in 1..Len(f) : f[i][col] = k }),
          yes |-> churn_sum(SelectSeq(f, LAMBDA row : row[col] = k)) ] ]

\* groupby([x, y], dropna=False)["churn_num"].mean()
groupby2_mean(f, x, y) ==
    [ k \in { << f[i][x], f[i][y] >> : i \in 1..Len(f) } |->
        [ n |-> Cardinality({ i \in 1..Len(f) : << f[i][x], f[i][y] >> = k }),
          yes |-> churn_sum(SelectSeq(f, LAMBDA row : << row[x], row[y] >> = k)) ] ]

----------------------------------------------------------------------------
\* Correlations tab (lines 203-218)

\* the values without str.lower
lowered_values_cased(f, col) ==
    { f[i][col].v : i \in { j \in 1..Len(f) : ~isna(f[j][col]) } }

\* set(map(str.lower, map(str, vals))) of the column's non-missing values
lowered_values(f, col) ==
    { lower(f[i][col].v) : i \in { j \in 1..Len(f) : ~isna(f[j][col]) } }

\* the test of line 208 on a text column
binarizable(d, f, col) ==
    dtype(d, col) = "object" /\ lowered_values(f, col) \subseteq { "yes", "no" }

\* .astype(str).str.lower().map({"yes":1, "no":0}) on one cell
binarize(c) ==
    IF isna(c) THEN NaN
    ELSE IF lower(c.v) = "yes" THEN Num(1)
    ELSE IF lower(c.v) = "no" THEN Num(0)
    ELSE NaN

\* the columns select_dtypes(include=[np.number]) keeps
numeric_columns(cs, d, f) ==
    { c \in frame_columns(cs) : dtype(d, c) = "number" \/ binarizable(d, f, c) }

\* num_df after line 210: its columns and its rows
numeric_frame(cs, d, f) ==
    LET kept == numeric_columns(cs, d, f)
        mapped == { c \in kept : binarizable(d, f, c) }
    IN  [ columns |-> kept,
          rows |-> [ i \in 1..Len(f) |->
                       [ c \in kept |-> IF c \in mapped THEN binarize(f[i][c]) ELSE f[i][c] ] ] ]

NoFrame == [ columns |-> {}, rows |-> << >> ]

----------------------------------------------------------------------------
\* What a run renders.  A rendered element is recorded with the columns of the
\* frame it reads.

Element(k, cols) == [ kind |-> k, uses |-> cols ]

\* line 61
missing_core(cs) == { c \in { "Churn", "MonthlyCharges", "tenure" } : c \notin cs }

\* color="Churn" if "Churn" in fdf.columns else None
color_churn(cs) == IF "Churn" \in frame_columns(cs) THEN { "Churn" } ELSE {}

controls(cs, d) ==
    { Element("multiselect", { c }) : c \in multiselect_shown(cs) }
    \cup { Element("slider", { c }) : c \in slider_shown(cs, d) }

multiselect_controls(cs) == { Element("multiselect", { c }) : c \in multiselect_shown(cs) }

warnings(cs) == IF missing_core(cs) # {} THEN { Element("warning", {}) } ELSE {}

\* the charts of the four tabs; nf is num_df, and "not num_df.empty" is its test
charts(cs, d, nf, cc) ==
    (IF "Churn" \in frame_columns(cs) THEN { Element("pie", { "Churn" }) } ELSE {})
    \cup (IF "tenure" \in frame_columns(cs)
          THEN { Element("hist_tenure", { "tenure" } \cup color_churn(cs)) } ELSE {})
    \cup (IF "MonthlyCharges" \in frame_columns(cs)
          THEN { Element("hist_monthly", { "MonthlyCharges" } \cup color_churn(cs)) } ELSE {})
    \cup (IF cc # Placeholder /\ "Churn" \in frame_columns(cs)
          THEN { Element("bar", { cc, "Churn" }) } ELSE {})
    \cup (IF "MonthlyCharges" \in frame_columns(cs) /\ "Churn" \in frame_columns(cs)
          THEN { Element("box", { "MonthlyCharges", "Churn" }) } ELSE {})
    \cup (IF cross_shown(cs, d) THEN { Element("cross", { "Churn" }) } ELSE {})
    \cup (IF "tenure" \in frame_columns(cs) /\ "MonthlyCharges" \in frame_columns(cs)
          THEN { Element("scatter",
                         { "tenure", "MonthlyCharges" } \cup color_churn(cs)
                         \cup { c \in { "Contract", "PaymentMethod", "InternetService" } :
                                  c \in frame_columns(cs) }) }
          ELSE {})
    \cup (IF nf.columns # {} /\ Len(nf.rows) # 0
          THEN { Element("corr", nf.columns) }
          ELSE { Element("corr_info", {}) })

----------------------------------------------------------------------------
\* One execution of the script (lines 58-229) on the coerced table d with columns
\* cs, the widgets holding o, r, cc, cx, cy; prev is the filtered table of the
\* previous execution.

Script(cs, d, prev, o, r, cc, cx, cy) ==
    IF registry_raises(cs, d)
    THEN /\ status' = "ValueError"
         /\ opt' = o
         /\ rng' = << >>
         /\ fdf' = << >>
         /\ kpi' = NoKpis
         /\ cat_choice' = ""
         /\ cross_x' = ""
         /\ cross_y' = ""
         /\ grp' = << >>
         /\ tmp' = << >>
         /\ num_df' = NoFrame
         /\ shown' = warnings(cs) \cup multiselect_controls(cs)
    ELSE /\ status' = "ok"
         /\ opt' = o
         /\ rng' = r
         /\ fdf' = filtered(cs, d, prev, o, r)
         /\ kpi' = kpis(cs, fdf')
         /\ cat_choice' = cc
         /\ cross_x' = cx
         /\ cross_y' = cy
         /\ grp' = IF cc # Placeholder /\ "Churn" \in frame_columns(cs)
                   THEN groupby_mean(fdf', cc) ELSE << >>
         /\ tmp' = IF cross_shown(cs, d) THEN groupby2_mean(fdf', cx, cy) ELSE << >>
         /\ num_df' = numeric_frame(cs, d, fdf')
         /\ shown' = warnings(cs) \cup controls(cs, d) \cup charts(cs, d, num_df', cc)

----------------------------------------------------------------------------
\* Interactions

Init ==
    /\ uploaded = FALSE
    /\ status = "stopped"
    /\ columns = {}
    /\ df = << >>
    /\ opt = << >>
    /\ rng = << >>
    /\ fdf = << >>
    /\ kpi = NoKpis
    /\ cat_choice = ""
    /\ cross_x = ""
    /\ cross_y = ""
    /\ grp = << >>
    /\ tmp = << >>
    /\ num_df = NoFrame
    /\ shown = {}

\* The user uploads a file with columns cs and rows raw: the first full run, every
\* widget at its default.
Upload(cs, raw) ==
    /\ ~uploaded
    /\ LET d == add_tenure_bin(cs, coerce_telco_types(cs, raw)) IN
       /\ uploaded' = TRUE
       /\ columns' = cs
       /\ df' = d
       /\ Script(cs, d, << >>, default_opt(cs, d), default_rng(cs, d),
                 cat_options(cs, d)[1],
                 IF cross_shown(cs, d) THEN cat_cols(cs, d)[1] ELSE "",
                 IF cross_shown(cs, d)
                 THEN cross_y_options(cs, d, cat_cols(cs, d)[1])[1] ELSE "")

\* The user changes the selection of a categorical filter.
SetMultiselect(col, sel) ==
    /\ uploaded /\ status = "ok"
    /\ col \in DOMAIN opt
    /\ sel \subseteq multiselect_options(df, col)
    /\ sel # opt[col]
    /\ Script(columns, df, fdf, [ opt EXCEPT ![col] = sel ], rng,
              cat_choice, cross_x, cross_y)
    /\ UNCHANGED << uploaded, columns, df >>

\* The user moves the ends of a range slider.
SetSlider(col, lo, hi) ==
    /\ uploaded /\ status = "ok"
    /\ col \in DOMAIN rng
    /\ lo \in slider_points(df, col) /\ hi \in slider_points(df, col)
    /\ lo.v <= hi.v
    /\ << lo, hi >> # rng[col]
    /\ Script(columns, df, fdf, opt, [ rng EXCEPT ![col] = << lo, hi >> ],
              cat_choice, cross_x, cross_y)
    /\ UNCHANGED << uploaded, columns, df >>

\* The user picks the category of the bar chart.
SelectCategory(c) ==
    /\ uploaded /\ status = "ok"
    /\ c \in Range(cat_options(columns, df))
    /\ c # cat_choice
    /\ Script(columns, df, fdf, opt, rng, c, cross_x, cross_y)
    /\ UNCHANGED << uploaded, columns, df >>

\* The user picks the first axis of the crossed view.  A selectbox whose options
\* changed is a new widget, at its index=0.
SelectCrossX(c) ==
    /\ uploaded /\ status = "ok"
    /\ cross_shown(columns, df)
    /\ c \in Range(cat_cols(columns, df))
    /\ c # cross_x
    /\ Script(columns, df, fdf, opt, rng, cat_choice, c,
              IF cross_y_options(columns, df, c) = cross_y_options(columns, df, cross_x)
              THEN cross_y ELSE cross_y_options(columns, df, c)[1])
    /\ UNCHANGED << uploaded, columns, df >>

\* The user picks the second axis of the crossed view.
SelectCrossY(c) ==
    /\ uploaded /\ status = "ok"
    /\ cross_shown(columns, df)
    /\ c \in Range(cross_y_options(columns, df, cross_x))
    /\ c # cross_y
    /\ Script(columns, df, fdf, opt, rng, cat_choice, cross_x, c)
    /\ UNCHANGED << uploaded, columns, df >>

\* The files of the main specification: at least one and at most MaxCols of the
\* columns (pd.read_csv raises on a file without columns).
ColumnSets == { cs \in SUBSET AllColumns : cs # {} /\ Cardinality(cs) <= MaxCols }

\* The uploaded files leave out two shapes.  A one-column file has no missing
\* cell: its line would be blank, and pd.read_csv skips blank lines.  A numeric
\* filter column of a file with rows holds at least one parsable value: its
\* range slider would else be created with NaN bounds, which st.slider leaves
\* undefined.
Readable(cs, raw) ==
    /\ Cardinality(cs) = 1 => \A i \in 1..Len(raw) : \A c \in cs : ~isna(raw[i][c])
    /\ \A c \in Range(NumFilters) \cap cs :
          Len(raw) = 0 \/ ~isna(nanmin(coerce_telco_types(cs, raw), c))

Next ==
    \/ ~uploaded /\ \E cs \in ColumnSets, idx \in RowChoices :
          Readable(cs, RawTable(cs, idx)) /\ Upload(cs, RawTable(cs, idx))
    \/ \E col \in DOMAIN opt : \E sel \in SUBSET multiselect_options(df, col) :
          SetMultiselect(col, sel)
    \/ \E col \in DOMAIN rng : \E lo, hi \in slider_points(df, col) : SetSlider(col, lo, hi)
    \/ \E c \in AllColumns \cup { Placeholder } : SelectCategory(c)
    \/ \E c \in AllColumns : SelectCrossX(c)
    \/ \E c \in AllColumns : SelectCrossY(c)

Spec == Init /\ [][Next]_vars

\* The binning specification: files of two rows, the first a pool row, the second
\* with a tenure that ranges over 0..MaxTenure, a missing value and an
\* unparsable text.
TenureCells == { Num(x) : x \in 0..MaxTenure } \cup { NaN, Str("abc") }

BinColumnSets == { { "tenure" }, { "tenure", "Churn" } }

BinTable(cs, cell) ==
    << [ c \in cs |-> RowPool[2][c] ],
       [ c \in cs |-> IF c = "tenure" THEN cell ELSE RowPool[1][c] ] >>

NextBin ==
    ~uploaded /\ \E cs \in BinColumnSets, cell \in TenureCells : Upload(cs, BinTable(cs, cell))

SpecBin == Init /\ [][NextBin]_vars

----------------------------------------------------------------------------
\* Properties

Ran == uploaded /\ status = "ok"

\* The condition of one row under the selection (o, r): the conjunction of one
\* condition per filter whose column the table has.
Keeps(o, r, row) ==
    /\ \A c \in Range(CatFilters) \cap columns :
          astype_str(df, c, row[c]) \in o[c]
    /\ \A c \in Range(NumFilters) \cap columns :
          ~isna(row[c]) /\ r[c][1].v <= row[c].v /\ row[c].v <= r[c][2].v

\* C1: after every completed run the filtered table is exactly the rows of the
\* coerced table, in order, that satisfy the AND of all filter conditions: a
\* categorical filter keeps a row iff its text-coerced value is selected, a
\* numeric filter keeps it iff low <= value <= high, and only the filters whose
\* column is present have a control and contribute a condition.
C1_MaskComposition ==
    Ran => /\ DOMAIN opt = Range(CatFilters) \cap columns
           /\ DOMAIN rng = Range(NumFilters) \cap columns
           /\ fdf = SelectSeq(df, LAMBDA row : Keeps(opt, rng, row))

\* C1 witness: a categorical and a numeric filter both narrowed, another filter
\* column absent, and the mask keeps some rows and drops others.
C1_Witness ==
    /\ Ran
    /\ \E c \in DOMAIN opt : opt[c] # multiselect_options(df, c)
    /\ \E c \in DOMAIN rng : rng[c] # << nanmin(df, c), nanmax(df, c) >>
    /\ Len(fdf) > 0 /\ Len(fdf) < Len(df)

\* C2 (as claimed): with every filter control at its default the filtered table
\* holds every row of the coerced table, rows with missing values included, and
\* "Customers (filtered)" is the loaded row count.
C2_DefaultsKeepEveryRow ==
    (Ran /\ opt = default_opt(columns, df) /\ rng = default_rng(columns, df))
        => (fdf = df /\ kpi.customers = Len(df))

\* C3: every run recomputes the filtered table from the full coerced table and the
\* current selection only; a run with an unchanged selection yields the same
\* filtered table; no interaction changes the coerced table.
C3_Stateless ==
    [][ Ran =>
          /\ df' = df /\ columns' = columns
          /\ fdf' = SelectSeq(df, LAMBDA row : Keeps(opt', rng', row))
          /\ (opt' = opt /\ rng' = rng) => fdf' = fdf ]_vars

\* C3 witness: two filters away from their defaults (a sequence of changes has
\* happened) with a non-empty result.
C3_Witness ==
    /\ Ran
    /\ \E c1, c2 \in DOMAIN opt :
          c1 # c2 /\ opt[c1] # multiselect_options(df, c1)
                  /\ opt[c2] # multiselect_options(df, c2)
    /\ Len(fdf) > 0

\* (o2, r2) is (o1, r1) with one categorical selection shrunk or one interval narrowed
Narrowed(o1, r1, o2, r2) ==
    \/ /\ r2 = r1
       /\ \E c \in DOMAIN o1 : o2[c] \subseteq o1[c] /\ o2[c] # o1[c]
                                /\ \A e \in DOMAIN o1 \ { c } : o2[e] = o1[e]
    \/ /\ o2 = o1
       /\ \E c \in DOMAIN r1 :
             /\ r2[c] # r1[c]
             /\ r1[c][1].v <= r2[c][1].v /\ r2[c][2].v <= r1[c][2].v
             /\ \A e \in DOMAIN r1 \ { c } : r2[e] = r1[e]

\* C4: a step that shrinks one categorical selection or narrows one numeric
\* interval never increases the filtered table's row count.
C4_Monotone ==
    [][ (Ran /\ Narrowed(opt, rng, opt', rng'))
          => (Len(fdf') <= Len(fdf) /\ kpi'.customers <= kpi.customers) ]_vars

\* C4 witness: a narrowed selection under which fewer rows remain than at the defaults.
C4_Witness ==
    /\ Ran
    /\ Narrowed(default_opt(columns, df), default_rng(columns, df), opt, rng)
    /\ Len(fdf) < Len(filtered(columns, df, << >>, default_opt(columns, df),
                               default_rng(columns, df)))

\* The ranges of section 4.2: lower bounds and labels
BinLower == << 0, 6, 12, 24, 36, 48, 60 >>
BinLabel == << "0-6", "6-12", "12-24", "24-36", "36-48", "48-60", "60+" >>

\* C5: the tenure_bin of a row is missing when its tenure is missing, and else the
\* label of the half-open range [lower, next lower) that holds the tenure
\* (the last range is unbounded); it is always one of the seven labels or missing.
C5_TenureBin ==
    \A i \in 1..Len(df) :
        "tenure" \in columns =>
            IF isna(df[i]["tenure"]) THEN isna(df[i]["tenure_bin"])
            ELSE \E k \in 1..7 :
                    /\ df[i]["tenure_bin"] = Str(BinLabel[k])
                    /\ BinLower[k] <= df[i]["tenure"].v
                    /\ (k = 7 \/ df[i]["tenure"].v < BinLower[k + 1])

\* C5 witness: a tenure of exactly 6 is binned "6-12".
C5_Witness ==
    /\ uploaded /\ Len(df) = 2
    /\ df[2]["tenure"] = Num(6) /\ df[2]["tenure_bin"] = Str("6-12")

\* the rows of the filtered table whose lower-cased label is "yes"
YesRows == { i \in 1..Len(fdf) : lower(fdf[i]["Churn"].v) = "yes" }

\* C6 (as amended): when the label column is present the churn KPI is the metric
\* 100 * (rows whose lower-cased label is "yes") / (rows), and exactly 0.0 on an
\* empty filtered table, never a division by zero or NaN; when the label column
\* is absent no rate is computed and the KPI reads "N/A".
C6_ChurnRate ==
    Ran =>
        IF "Churn" \in columns
        THEN /\ kpi.churn.kind = "metric"
             /\ kpi.churn.den # 0
             /\ kpi.churn.num * Len(fdf) = 100 * Cardinality(YesRows) * kpi.churn.den
             /\ Len(fdf) = 0 => kpi.churn.num = 0
        ELSE kpi.churn.kind = "N/A"

\* C6 witness: the label column is present and the filters leave no row.
C6_Witness ==
    /\ Ran /\ "Churn" \in columns /\ Len(df) > 0 /\ Len(fdf) = 0
    /\ kpi.churn = Metric(0, 1)

\* C6 (as claimed): the rate is 100 times the fraction of "yes" rows, and it is
\* exactly 0.0 if the filtered table is empty or the label column is absent.
C6_ZeroWhenEmptyOrAbsent ==
    Ran =>
        /\ ("Churn" \in columns /\ Len(fdf) > 0)
              => /\ kpi.churn.kind = "metric" /\ kpi.churn.den # 0
                 /\ kpi.churn.num * Len(fdf) = 100 * Cardinality(YesRows) * kpi.churn.den
        /\ (Len(fdf) = 0 \/ "Churn" \notin columns)
              => (kpi.churn.kind = "metric" /\ kpi.churn.num = 0 /\ kpi.churn.den # 0)

\* C7 (as claimed): whatever subset of the expected columns the loaded table has,
\* the run completes; every rendered control and chart reads only columns the
\* frame has; an absent column leaves its control out, its KPI at "N/A" and its
\* charts skipped.
C7_RunsToCompletion ==
    uploaded =>
        /\ status = "ok"
        /\ \A e \in shown : e.uses \subseteq frame_columns(columns)
        /\ \A c \in AllColumns \ columns : \A e \in shown : c \notin e.uses
        /\ "Churn" \notin columns => kpi.churn.kind = "N/A"
        /\ "MonthlyCharges" \notin columns => kpi.monthly.kind = "N/A"
        /\ "tenure" \notin columns => kpi.tenure.kind = "N/A"

\* C8: whenever the crossed view is computed the two axes are categorical columns,
\* the second axis's candidates exclude the first axis's choice, and the two
\* axes differ.
C8_AxesDistinct ==
    (Ran /\ Element("cross", { "Churn" }) \in shown) =>
        /\ cross_x \in Range(cat_cols(columns, df))
        /\ cross_x \notin Range(cross_y_options(columns, df, cross_x))
        /\ cross_y \in Range(cross_y_options(columns, df, cross_x))
        /\ cross_x # cross_y

\* C8 witness: the first axis was set to the second axis's former choice.
C8_Witness ==
    /\ Ran /\ Element("cross", { "Churn" }) \in shown
    /\ Len(cat_cols(columns, df)) >= 3
    /\ cross_x = cat_cols(columns, df)[2]
    /\ cross_y = cat_cols(columns, df)[1]

RECURSIVE GroupSizes(_, _)
GroupSizes(g, keys) ==
    IF keys = {} THEN 0
    ELSE LET k == CHOOSE x \in keys : TRUE IN g[k].n + GroupSizes(g, keys \ { k })

\* C9: when the rate by category is computed, every row of the filtered table,
\* a row with a missing category included, is in the group of its value, each
\* group counts its rows, and the group sizes sum to the row count.
C9_GroupsPartition ==
    (Ran /\ Element("bar", { cat_choice, "Churn" }) \in shown) =>
        /\ \A i \in 1..Len(fdf) : fdf[i][cat_choice] \in DOMAIN grp
        /\ \A k \in DOMAIN grp :
              grp[k].n = Cardinality({ i \in 1..Len(fdf) : fdf[i][cat_choice] = k })
        /\ GroupSizes(grp, DOMAIN grp) = Len(fdf)

\* C9 witness: a group of rows whose category is missing, beside another group.
C9_Witness ==
    /\ Ran /\ Element("bar", { cat_choice, "Churn" }) \in shown
    /\ NaN \in DOMAIN grp
    /\ Cardinality(DOMAIN grp) >= 2

\* column c of the filtered table holds only missing values, "yes" and "no" (any case)
YesNoOnly(c) ==
    \A i \in 1..Len(fdf) : isna(fdf[i][c]) \/ lower(fdf[i][c].v) \in { "yes", "no" }

\* C10: a text column is in the numeric frame of the correlation iff its
\* non-missing values, lower-cased, are all "yes" or "no", and then its cells are
\* 1 for yes, 0 for no and missing for missing.
C10_Binarization ==
    Ran =>
        \A c \in { x \in frame_columns(columns) : dtype(df, x) = "object" } :
            /\ c \in num_df.columns <=> YesNoOnly(c)
            /\ c \in num_df.columns =>
                  \A i \in 1..Len(fdf) :
                      num_df.rows[i][c] =
                          IF isna(fdf[i][c]) THEN NaN
                          ELSE IF lower(fdf[i][c].v) = "yes" THEN Num(1) ELSE Num(0)

\* C10 witness: a binarized yes/no column with an upper-case value beside a text
\* column that is left out.
C10_Witness ==
    /\ Ran /\ Len(fdf) > 0
    /\ \E c1, c2 \in frame_columns(columns) :
          /\ dtype(df, c1) = "object" /\ dtype(df, c2) = "object"
          /\ c1 \in num_df.columns /\ c2 \notin num_df.columns
          /\ \E i \in 1..Len(fdf) : fdf[i][c1] = Str("YES")

====
